---------------------------- MODULE Spec2Model ----------------------------
(***************************************************************************)
(* The drawing pad: the Canvas component (stroke capture, history, the     *)
(* imperative handle, the renderer) and the App component that owns it     *)
(* (toolbar state, download, the "beautify" enhancement flow).             *)
(*                                                                         *)
(* React state is modelled in two layers.  history / currentPath /         *)
(* isDrawing are the component's state as the queued updates leave it.     *)
(* rHistory / rCurrentPath / rIsDrawing are the values of the last render, *)
(* which are what the closures created by that render (the DOM listeners,  *)
(* the imperative handle, redrawCanvas) read.  A handler that runs in a    *)
(* discrete event (mousedown, mouseup, touchstart, touchend, a toolbar     *)
(* click) is followed by its render and effects before the next event; a   *)
(* handler that runs in a continuous event (mousemove, touchmove,          *)
(* mouseleave) or in a completion callback (image onload, the awaited      *)
(* remote call) leaves its render scheduled, and other events may be       *)
(* delivered before it runs.  The render of a discrete event applies that  *)
(* event's own updates only; the scheduled render stays scheduled, and at  *)
(* most MaxStale handlers run before it.                                   *)
(*                                                                         *)
(* Coordinates in drawing commands are counted in half pixels, so that the *)
(* midpoint (a + b) / 2 of the smoothing is the integer a + b.             *)
(***************************************************************************)
EXTENDS Integers, Sequences, FiniteSets, TLC

VARIABLES
    history,        \* Canvas state: committed paths
    currentPath,    \* Canvas state: in-progress path or NULL
    isDrawing,      \* Canvas state: drawing-active flag
    rHistory,       \* history as of the last render (read by closures)
    rCurrentPath,   \* currentPath as of the last render
    rIsDrawing,     \* isDrawing as of the last render
    pending,        \* "none" | "scheduled": a render left scheduled
    stale,          \* handlers run since that render was scheduled
    canvasSize,     \* canvas.width / canvas.height
    surface,        \* drawing commands on the canvas since its last full fill
    color,          \* App state
    strokeWidth,    \* App state
    isErasing,      \* App state
    isLoading,      \* App state
    error,          \* App state: NULL or the message shown
    awaiting,       \* handleBeautify is awaiting beautifyDrawing(imageData)
    imageLoads,     \* images passed to loadImage whose onload has not fired
    stroke,         \* observer: the samples of an undisturbed stroke, or NULL
    last            \* observer: the operation of the last step

vars == <<history, currentPath, isDrawing, rHistory, rCurrentPath, rIsDrawing,
          pending, stale, canvasSize, surface, color, strokeWidth, isErasing,
          isLoading, error, awaiting, imageLoads, stroke, last>>

canvasVars == <<history, currentPath, isDrawing, rHistory, rCurrentPath,
                rIsDrawing, pending, surface>>
appVars == <<color, strokeWidth, isErasing, isLoading, error, awaiting>>

NULL == [null |-> TRUE]

-----------------------------------------------------------------------------
(* Bounds of the model *)

\* Total number of sampled points held in history and the in-progress path.
MaxInk == 4
\* Number of points of a path handed to the renderer.
MaxPoints == 5
\* Number of image loads that may be outstanding at once.
MaxLoads == 1
\* Number of handlers that may run while a scheduled render is outstanding,
\* after the one that scheduled it.
MaxStale == 2

-----------------------------------------------------------------------------
(* Inputs *)

\* canvas.getBoundingClientRect(): the canvas's on-screen offset.
Rect == [left |-> 10, top |-> 20]
\* Surface-local coordinates the pointer is sampled at.
Xs == {0, 1}
Ys == {0}
ClientPoints == {[clientX |-> Rect.left + x, clientY |-> Rect.top + y] : x \in Xs, y \in Ys}
OtherTouch == [clientX |-> Rect.left + 7, clientY |-> Rect.top + 7]

MouseEvents == {[type |-> "mouse", clientX |-> p.clientX, clientY |-> p.clientY] : p \in ClientPoints}
TouchEvents ==
    {[type |-> "touch", touches |-> <<>>]}
    \cup {[type |-> "touch", touches |-> <<p>>] : p \in ClientPoints}
    \cup {[type |-> "touch", touches |-> <<p, OtherTouch>>] : p \in ClientPoints}
PointerEvents == MouseEvents \cup TouchEvents

canvasColor == "#1e293b"
colors == {"#FFFFFF", "#EF4444"}
Widths == {5, 2}
Sizes == {[width |-> 300, height |-> 150], [width |-> 800, height |-> 600]}
Images == {"data:image/png;base64,AAAA"}

EmptyCanvasMessage == [message |-> "Canvas is empty. Please draw something first."]
BeautifyFailedMessage == [message |-> "Failed to beautify the drawing with AI. Please try again."]

-----------------------------------------------------------------------------
(* Stroke Renderer *)

RECURSIVE CurvesToNextPoint(_, _)
\* Mutant of Curves: each curve ends at the next point, not at the midpoint.
CurvesToNextPoint(points, i) ==
    IF i < Len(points) - 1
    THEN <<[op |-> "quadraticCurveTo",
            cpx |-> 2 * points[i].x, cpy |-> 2 * points[i].y,
            x |-> 2 * points[i + 1].x, y |-> 2 * points[i + 1].y]>>
         \o CurvesToNextPoint(points, i + 1)
    ELSE <<>>

RECURSIVE Curves(_, _)
\* The loop of drawSmoothedPath from index i on.
Curves(points, i) ==
    IF i < Len(points) - 1
    THEN <<[op |-> "quadraticCurveTo",
            cpx |-> 2 * points[i].x, cpy |-> 2 * points[i].y,
            x |-> points[i].x + points[i + 1].x,
            y |-> points[i].y + points[i + 1].y]>>
         \o Curves(points, i + 1)
    ELSE <<>>

\* Mutant of drawSmoothedPath: a path of one point gets no segment.
drawSmoothedPathWithoutDot(path) ==
    LET points == path.points
        style == <<[op |-> "strokeStyle", value |-> path.color],
                   [op |-> "lineWidth", value |-> path.strokeWidth],
                   [op |-> "lineCap", value |-> "round"],
                   [op |-> "lineJoin", value |-> "round"]>>
        n == Len(points)
    IN  IF n = 0 THEN style
        ELSE style
             \o <<[op |-> "beginPath"],
                  [op |-> "moveTo", x |-> 2 * points[1].x, y |-> 2 * points[1].y]>>
             \o (IF n < 3
                 THEN IF n > 1
                      THEN <<[op |-> "lineTo", x |-> 2 * points[2].x, y |-> 2 * points[2].y]>>
                      ELSE <<>>
                 ELSE Curves(points, 2)
                      \o <<[op |-> "quadraticCurveTo",
                            cpx |-> 2 * points[n - 1].x, cpy |-> 2 * points[n - 1].y,
                            x |-> 2 * points[n].x, y |-> 2 * points[n].y]>>)
             \o <<[op |-> "stroke"]>>

drawSmoothedPath(path) ==
    LET points == path.points
        style == <<[op |-> "strokeStyle", value |-> path.color],
                   [op |-> "lineWidth", value |-> path.strokeWidth],
                   [op |-> "lineCap", value |-> "round"],
                   [op |-> "lineJoin", value |-> "round"]>>
        n == Len(points)
    IN  IF n = 0 THEN style
        ELSE style
             \o <<[op |-> "beginPath"],
                  [op |-> "moveTo", x |-> 2 * points[1].x, y |-> 2 * points[1].y]>>
             \o (IF n < 3
                 THEN IF n > 1
                      THEN <<[op |-> "lineTo", x |-> 2 * points[2].x, y |-> 2 * points[2].y]>>
                      ELSE <<[op |-> "lineTo", x |-> 2 * points[1].x, y |-> 2 * points[1].y]>>
                 ELSE Curves(points, 2)
                      \o <<[op |-> "quadraticCurveTo",
                            cpx |-> 2 * points[n - 1].x, cpy |-> 2 * points[n - 1].y,
                            x |-> 2 * points[n].x, y |-> 2 * points[n].y]>>)
             \o <<[op |-> "stroke"]>>

RECURSIVE drawPaths(_)
\* pathsToDraw.forEach(path => drawSmoothedPath(ctx, path))
drawPaths(paths) ==
    IF paths = <<>> THEN <<>>
    ELSE drawSmoothedPath(Head(paths)) \o drawPaths(Tail(paths))

\* ctx.fillStyle = canvasColor; ctx.fillRect(0, 0, width, height)
fillBackground(size) ==
    <<[op |-> "fillStyle", value |-> canvasColor],
      [op |-> "fillRect", x |-> 0, y |-> 0, w |-> size.width, h |-> size.height]>>

\* redrawCanvas with the history and currentPath its closure captured.
redrawCanvas(hist, cur, size) ==
    LET pathsToDraw == IF cur # NULL THEN Append(hist, cur) ELSE hist
    IN  fillBackground(size) \o drawPaths(pathsToDraw)

-----------------------------------------------------------------------------
(* Drawing Surface Controller: helpers *)

\* strokeColor prop: isErasing ? '#1e293b' : color
strokeColor == IF isErasing THEN canvasColor ELSE color

\* Mutant of getCoordinates: an event without a touch point is placed at the
\* canvas's origin.
getCoordinatesOrOrigin(canvasAttached, event) ==
    IF ~canvasAttached THEN NULL
    ELSE IF event.type = "touch"
         THEN IF Len(event.touches) = 0 THEN [x |-> 0, y |-> 0]
              ELSE [x |-> event.touches[1].clientX - Rect.left,
                    y |-> event.touches[1].clientY - Rect.top]
         ELSE [x |-> event.clientX - Rect.left,
               y |-> event.clientY - Rect.top]

\* getCoordinates: viewport coordinates to surface-local ones; NULL when the
\* canvas is not attached or a touch event carries no touch point.
getCoordinates(canvasAttached, event) ==
    IF ~canvasAttached THEN NULL
    ELSE IF event.type = "touch"
         THEN IF Len(event.touches) = 0 THEN NULL
              ELSE [x |-> event.touches[1].clientX - Rect.left,
                    y |-> event.touches[1].clientY - Rect.top]
         ELSE [x |-> event.clientX - Rect.left,
               y |-> event.clientY - Rect.top]

RECURSIVE InkOf(_)
InkOf(paths) ==
    IF paths = <<>> THEN 0 ELSE Len(Head(paths).points) + InkOf(Tail(paths))

Ink(hist, cur) == InkOf(hist) + (IF cur = NULL THEN 0 ELSE Len(cur.points))

\* Mutant of SliceLast: drops the first element instead of the last.
SliceFirst(prev) == IF prev = <<>> THEN <<>> ELSE Tail(prev)

\* prev.slice(0, -1)
SliceLast(prev) == IF prev = <<>> THEN <<>> ELSE SubSeq(prev, 1, Len(prev) - 1)

\* The observer's note of a step it does not tell apart.
Unobserved == [op |-> "other"]

\* The observer's note of a pointer-down or pointer-move that returned for
\* want of a coordinate, and of a pointer-move that found the flag down.
Unresolved == [op |-> "unresolved"]
IdleMove == [op |-> "idleMove"]

\* The observed stroke is still being sampled.
Open(s) == s # NULL /\ s.phase = "open"

\* The stroke under way was cancelled by an operation of the handle or by the
\* completion of an image load, and no pointer-down was handled since.
Cancelled(s) == s # NULL /\ s.phase = "cancelled"

\* The observer's note of such an operation, which leaves history as h.
Cancel(by, h) ==
    IF currentPath # NULL \/ Cancelled(stroke)
    THEN [phase |-> "cancelled", by |-> by, history |-> h]
    ELSE NULL

\* The last step was the completion of an image load, or its render.
AfterLoad(l) ==
    \/ l.op = "ImageLoaded"
    \/ l.op = "Render" /\ l.of.op = "ImageLoaded"

\* What the observer notes of the state an operation of the handle starts in.
Pre == [n |-> Len(history), drawing |-> currentPath # NULL]

\* A handler runs, possibly while a scheduled render is outstanding.
Tick ==
    /\ pending = "scheduled" => stale < MaxStale
    /\ stale' = IF pending = "scheduled" THEN stale + 1 ELSE 0

\* The state a handler leaves, and the render that follows it.
\*   h, c, d:    the state once the handler's updates are applied;
\*   rh, rc, rd: the same updates applied to the values of the last render,
\*               which is what a synchronous render shows while an earlier,
\*               scheduled render is still outstanding;
\*   deps: history or currentPath received a new reference, so redrawCanvas
\*         is re-created and the redraw effect runs with the render;
\*   mode: "sync" (the render and its effects run before the next event),
\*         "deferred" (the render is left scheduled), "none" (no state set);
\*   surf: the canvas as the handler itself leaves it.
Update(h, c, d, rh, rc, rd, deps, mode, surf) ==
    /\ Tick
    /\ history' = h
    /\ currentPath' = c
    /\ isDrawing' = d
    /\ IF mode = "sync"
       THEN /\ rHistory' = rh
            /\ rCurrentPath' = rc
            /\ rIsDrawing' = rd
            /\ pending' = pending
            /\ surface' = IF deps THEN redrawCanvas(rh, rc, canvasSize) ELSE surf
       ELSE /\ UNCHANGED <<rHistory, rCurrentPath, rIsDrawing>>
            /\ surface' = surf
            /\ pending' = IF mode = "deferred" THEN "scheduled" ELSE pending

\* No state is set: the handler returned early.
Ignore ==
    Update(history, currentPath, isDrawing, rHistory, rCurrentPath, rIsDrawing,
           FALSE, "none", surface)

\* A scheduled render runs: the closures now read the current state and the
\* effects whose dependencies changed run (redraw, re-subscription).
Render ==
    /\ pending = "scheduled"
    /\ rHistory' = history
    /\ rCurrentPath' = currentPath
    /\ rIsDrawing' = isDrawing
    /\ surface' = redrawCanvas(history, currentPath, canvasSize)
    /\ pending' = "none"
    /\ stale' = 0
    /\ last' = [op |-> "Render", of |-> last]
    /\ UNCHANGED <<history, currentPath, isDrawing, canvasSize, stroke, imageLoads>>
    /\ UNCHANGED appVars

\* Mutant of Resize: the canvas is resized, and so cleared, but not redrawn.
ResizeWithoutRedraw(size) ==
    /\ canvasSize' = size
    /\ surface' = <<>>
    /\ Tick
    /\ last' = Unobserved
    /\ UNCHANGED <<history, currentPath, isDrawing, rHistory, rCurrentPath,
                   rIsDrawing, pending, stroke, imageLoads>>
    /\ UNCHANGED appVars

\* ResizeObserver callback: resizes the canvas (which clears it) and calls the
\* redrawCanvas of the render that created the observer.
Resize(size) ==
    /\ canvasSize' = size
    /\ surface' = redrawCanvas(rHistory, rCurrentPath, size)
    /\ Tick
    /\ last' = Unobserved
    /\ UNCHANGED <<history, currentPath, isDrawing, rHistory, rCurrentPath,
                   rIsDrawing, pending, stroke, imageLoads>>
    /\ UNCHANGED appVars

-----------------------------------------------------------------------------
(* Pointer / touch input *)

\* mousedown / touchstart
startDrawing(event) ==
    LET coords == getCoordinates(TRUE, event)
        path == [points |-> <<coords>>, color |-> strokeColor,
                 strokeWidth |-> strokeWidth]
    IN  /\ Ink(history, NULL) < MaxInk
        /\ Ink(rHistory, NULL) < MaxInk
        /\ IF coords = NULL
           THEN /\ Ignore
                /\ stroke' = IF Cancelled(stroke) THEN stroke ELSE NULL
           ELSE /\ Update(history, path, TRUE, rHistory, path, TRUE,
                          TRUE, "sync", surface)
                /\ stroke' = IF pending = "none"
                             THEN [phase |-> "open", history |-> history,
                                   samples |-> <<coords>>,
                                   color |-> strokeColor,
                                   strokeWidth |-> strokeWidth]
                             ELSE NULL
        /\ last' = IF coords = NULL THEN Unresolved ELSE Unobserved
        /\ UNCHANGED <<canvasSize, imageLoads>>
        /\ UNCHANGED appVars

\* Mutant of appendPoint: the path takes the style current at the move.
appendPointRestyled(prev, coords) ==
    IF prev # NULL
    THEN [points |-> Append(prev.points, coords), color |-> strokeColor,
          strokeWidth |-> strokeWidth]
    ELSE NULL

\* setCurrentPath(prev => prev ? { ...prev, points: [...prev.points, coords] } : null)
appendPoint(prev, coords) ==
    IF prev # NULL THEN [prev EXCEPT !.points = Append(@, coords)] ELSE NULL

\* Mutant of draw: the flag is not consulted, and a move with no path in
\* progress starts one.
drawWhileIdle(event) ==
    LET coords == getCoordinates(TRUE, event)
        path == IF currentPath # NULL THEN appendPoint(currentPath, coords)
                ELSE [points |-> <<coords>>, color |-> strokeColor,
                      strokeWidth |-> strokeWidth]
    IN  /\ Ink(history, currentPath) < MaxInk
        /\ IF coords = NULL
           THEN Ignore
           ELSE Update(history, path, isDrawing, rHistory, rCurrentPath, rIsDrawing,
                       TRUE, "deferred", surface)
        /\ stroke' = NULL
        /\ last' = IF ~rIsDrawing THEN IdleMove
                   ELSE IF coords = NULL THEN Unresolved ELSE Unobserved
        /\ UNCHANGED <<canvasSize, imageLoads>>
        /\ UNCHANGED appVars

\* mousemove / touchmove
draw(event) ==
    LET coords == getCoordinates(TRUE, event)
    IN  /\ Ink(history, currentPath) < MaxInk
        /\ IF ~rIsDrawing
           THEN /\ Ignore
                /\ stroke' = IF Cancelled(stroke) THEN stroke ELSE NULL
           ELSE IF coords = NULL \/ rCurrentPath = NULL
           THEN /\ Ignore
                /\ stroke' = IF Cancelled(stroke) THEN stroke ELSE NULL
           ELSE /\ IF currentPath # NULL
                   THEN Update(history, appendPoint(currentPath, coords), isDrawing,
                               rHistory, rCurrentPath, rIsDrawing,
                               TRUE, "deferred", surface)
                   ELSE Ignore
                /\ stroke' = IF Cancelled(stroke) THEN stroke
                             ELSE IF Open(stroke) /\ pending = "none"
                             THEN [stroke EXCEPT !.samples = Append(@, coords)]
                             ELSE NULL
        /\ last' = IF ~rIsDrawing THEN IdleMove
                   ELSE IF coords = NULL THEN Unresolved ELSE Unobserved
        /\ UNCHANGED <<canvasSize, imageLoads>>
        /\ UNCHANGED appVars

\* Mutant of commitPath: the path is put at the front of history.
commitPathFirst(prev, path) ==
    IF Len(path.points) > 1 THEN <<path>> \o prev ELSE prev

\* Mutant of commitPath: a single-point path is committed too.
commitPathAlways(prev, path) == Append(prev, path)

\* setHistory(prev => [...prev, currentPath]) when the path read by the
\* handler has more than one point.
commitPath(prev, path) ==
    IF Len(path.points) > 1 THEN Append(prev, path) ELSE prev

\* finishDrawing, in the render mode of the event that delivers it.
finishDrawing(mode) ==
    /\ IF ~rIsDrawing \/ rCurrentPath = NULL
       THEN Ignore
       ELSE /\ InkOf(history) + Len(rCurrentPath.points) <= MaxInk
            /\ InkOf(rHistory) + Len(rCurrentPath.points) <= MaxInk
            /\ Update(commitPath(history, rCurrentPath), NULL, FALSE,
                      commitPath(rHistory, rCurrentPath), NULL, FALSE,
                      TRUE, mode, surface)
    /\ stroke' = IF Cancelled(stroke) THEN stroke
                 ELSE IF Open(stroke) /\ pending = "none"
                 THEN [stroke EXCEPT !.phase = "closed"]
                 ELSE NULL
    /\ last' = Unobserved
    /\ UNCHANGED <<canvasSize, imageLoads>>
    /\ UNCHANGED appVars

\* mouseup / touchend: discrete events.
PointerUp == finishDrawing("sync")

\* mouseleave: a continuous event.
MouseLeave == finishDrawing("deferred")

-----------------------------------------------------------------------------
(* Imperative handle of the Canvas *)

\* Mutant of clear: the in-progress path is kept.
clearKeepsStroke ==
    /\ Update(<<>>, currentPath, isDrawing, <<>>, rCurrentPath, rIsDrawing,
              TRUE, "sync", surface)
    /\ stroke' = Cancel("clear", <<>>)
    /\ last' = [op |-> "clear", pre |-> Pre]
    /\ UNCHANGED <<canvasSize, imageLoads>>

\* clear()
clear ==
    /\ Update(<<>>, NULL, isDrawing, <<>>, NULL, rIsDrawing, TRUE, "sync", surface)
    /\ stroke' = Cancel("clear", <<>>)
    /\ last' = [op |-> "clear", pre |-> Pre]
    /\ UNCHANGED <<canvasSize, imageLoads>>

\* Mutant of undo: with a stroke in progress only that stroke is cancelled.
undoCancelsStrokeOnly ==
    /\ IF currentPath # NULL
       THEN Update(history, NULL, isDrawing, rHistory, NULL, rIsDrawing,
                   TRUE, "sync", surface)
       ELSE Update(SliceLast(history), NULL, isDrawing,
                   SliceLast(rHistory), NULL, rIsDrawing, TRUE, "sync", surface)
    /\ stroke' = NULL
    /\ last' = [op |-> "undo", pre |-> Pre, afterLoad |-> AfterLoad(last)]
    /\ UNCHANGED <<canvasSize, imageLoads>>

\* undo()
undo ==
    /\ Update(SliceLast(history), NULL, isDrawing,
              SliceLast(rHistory), NULL, rIsDrawing, TRUE, "sync", surface)
    /\ stroke' = NULL
    /\ last' = [op |-> "undo", pre |-> Pre, afterLoad |-> AfterLoad(last)]
    /\ UNCHANGED <<canvasSize, imageLoads>>

\* The string '' where a data URI is expected.
EmptyString == [mimeType |-> "", width |-> 0, height |-> 0, pixels |-> <<>>]

\* tempCanvas.toDataURL('image/png'): a PNG of the canvas, as a data URI.
toDataURL(size, content) ==
    [mimeType |-> "image/png", width |-> size.width, height |-> size.height,
     pixels |-> content]

\* Mutant of getImageData: the export draws what redrawCanvas draws.
getImageDataWithStroke(ctxOk) ==
    IF ~ctxOk THEN EmptyString
    ELSE toDataURL(canvasSize, redrawCanvas(rHistory, rCurrentPath, canvasSize))

\* getImageData(): the committed paths of the handle's render over the
\* background, at the canvas's size; '' when no 2d context can be had.
getImageData(ctxOk) ==
    IF ~ctxOk THEN EmptyString
    ELSE toDataURL(canvasSize, fillBackground(canvasSize) \o drawPaths(rHistory))

\* imageData.length.  A PNG holds its signature (8 bytes), an IHDR chunk (25),
\* at least one IDAT chunk (12 and a zlib stream of 11 bytes or more) and an
\* IEND chunk (12); base64 writes 4 characters per 3 bytes after the 22
\* characters of "data:image/png;base64,".
DataUrlLength(imageData) ==
    IF imageData = EmptyString THEN 0
    ELSE LET bytes == 8 + 25 + (12 + 11 + Len(imageData.pixels)) + 12
         IN  22 + 4 * ((bytes + 2) \div 3)

\* Mutant of loadFromHistory: the in-progress path is kept.
loadFromHistoryKeepsStroke(newHistory) ==
    /\ Update(newHistory, currentPath, isDrawing, newHistory, rCurrentPath, rIsDrawing,
              TRUE, "sync", surface)
    /\ stroke' = Cancel("loadFromHistory", newHistory)
    /\ last' = [op |-> "loadFromHistory", pre |-> Pre, paths |-> newHistory]
    /\ UNCHANGED <<canvasSize, imageLoads>>
    /\ UNCHANGED appVars

\* loadFromHistory(newHistory)
loadFromHistory(newHistory) ==
    /\ Update(newHistory, NULL, isDrawing, newHistory, NULL, rIsDrawing,
              TRUE, "sync", surface)
    /\ stroke' = Cancel("loadFromHistory", newHistory)
    /\ last' = [op |-> "loadFromHistory", pre |-> Pre, paths |-> newHistory]
    /\ UNCHANGED <<canvasSize, imageLoads>>
    /\ UNCHANGED appVars

\* Mutant of ImageLoaded: the image is painted but history is not reset.
ImageLoadedKeepsHistory(i) ==
    /\ i \in 1..Len(imageLoads)
    /\ Update(history, NULL, isDrawing, rHistory, rCurrentPath, rIsDrawing,
              TRUE, "deferred",
              fillBackground(canvasSize)
              \o <<[op |-> "drawImage", image |-> imageLoads[i], x |-> 0, y |-> 0,
                    w |-> canvasSize.width, h |-> canvasSize.height]>>)
    /\ imageLoads' = SubSeq(imageLoads, 1, i - 1) \o SubSeq(imageLoads, i + 1, Len(imageLoads))
    /\ stroke' = Cancel("ImageLoaded", <<>>)
    /\ last' = [op |-> "ImageLoaded", pre |-> Pre, image |-> imageLoads[i]]
    /\ UNCHANGED canvasSize
    /\ UNCHANGED appVars

\* img.onload of loadImage(imageUrl)
ImageLoaded(i) ==
    /\ i \in 1..Len(imageLoads)
    /\ Update(<<>>, NULL, isDrawing, rHistory, rCurrentPath, rIsDrawing,
              TRUE, "deferred",
              fillBackground(canvasSize)
              \o <<[op |-> "drawImage", image |-> imageLoads[i], x |-> 0, y |-> 0,
                    w |-> canvasSize.width, h |-> canvasSize.height]>>)
    /\ imageLoads' = SubSeq(imageLoads, 1, i - 1) \o SubSeq(imageLoads, i + 1, Len(imageLoads))
    /\ stroke' = Cancel("ImageLoaded", <<>>)
    /\ last' = [op |-> "ImageLoaded", pre |-> Pre, image |-> imageLoads[i]]
    /\ UNCHANGED canvasSize
    /\ UNCHANGED appVars

\* The image never decodes: img.onload never fires and nothing is applied.
ImageFailed(i) ==
    /\ i \in 1..Len(imageLoads)
    /\ imageLoads' = SubSeq(imageLoads, 1, i - 1) \o SubSeq(imageLoads, i + 1, Len(imageLoads))
    /\ last' = Unobserved
    /\ Tick
    /\ UNCHANGED <<canvasVars, canvasSize, stroke>>
    /\ UNCHANGED appVars

-----------------------------------------------------------------------------
(* App *)

\* The render of a toolbar click: the Canvas re-renders with its parent, its
\* own state as it was.
Flush ==
    /\ Ignore
    /\ stroke' = NULL
    /\ UNCHANGED <<canvasSize, imageLoads>>

\* The render of a click on a style control: the Canvas re-renders with new
\* props; startDrawing is re-created and the listeners are re-subscribed.
Restyle ==
    /\ Ignore
    /\ UNCHANGED <<stroke, canvasSize, imageLoads>>

handleClear ==
    /\ clear
    /\ UNCHANGED appVars

handleUndo ==
    /\ undo
    /\ UNCHANGED appVars

handleDownload ==
    /\ last' = Unobserved
    /\ Tick
    /\ UNCHANGED <<canvasVars, canvasSize, stroke, imageLoads>>
    /\ UNCHANGED appVars

handleColorChange(newColor) ==
    /\ color' = newColor
    /\ isErasing' = FALSE
    /\ Restyle
    /\ last' = Unobserved
    /\ UNCHANGED <<strokeWidth, isLoading, error, awaiting>>

handleEraserSelect ==
    /\ isErasing' = TRUE
    /\ Restyle
    /\ last' = Unobserved
    /\ UNCHANGED <<color, strokeWidth, isLoading, error, awaiting>>

setStrokeWidth(width) ==
    /\ strokeWidth' = width
    /\ Restyle
    /\ last' = Unobserved
    /\ UNCHANGED <<color, isErasing, isLoading, error, awaiting>>

\* The click on Beautify (the button is disabled while isLoading): the part of
\* handleBeautify up to the await.
handleBeautify(ctxOk) ==
    LET imageData == getImageData(ctxOk)
    IN  /\ ~isLoading
        /\ Len(imageLoads) < MaxLoads
        /\ IF DataUrlLength(imageData) < 100
           THEN /\ error' = EmptyCanvasMessage
                /\ isLoading' = FALSE
                /\ awaiting' = FALSE
           ELSE /\ error' = NULL
                /\ isLoading' = TRUE
                /\ awaiting' = TRUE
        /\ Flush
        /\ last' = [op |-> "handleBeautify", blank |-> rHistory = <<>>, ctxOk |-> ctxOk]
        /\ UNCHANGED <<color, strokeWidth, isErasing>>

\* Mutant of BeautifyResolved: the flag is not reset after loadImage.
BeautifyResolvedStillLoading(newImage) ==
    /\ awaiting
    /\ imageLoads' = Append(imageLoads, newImage)
    /\ awaiting' = FALSE
    /\ last' = Unobserved
    /\ Tick
    /\ UNCHANGED <<canvasVars, canvasSize, stroke>>
    /\ UNCHANGED <<color, strokeWidth, isErasing, error, isLoading>>

\* beautifyDrawing resolves with an image: loadImage(newImage), then finally.
BeautifyResolved(newImage) ==
    /\ awaiting
    /\ imageLoads' = Append(imageLoads, newImage)
    /\ isLoading' = FALSE
    /\ awaiting' = FALSE
    /\ last' = Unobserved
    /\ Tick
    /\ UNCHANGED <<canvasVars, canvasSize, stroke>>
    /\ UNCHANGED <<color, strokeWidth, isErasing, error>>

\* Mutant of BeautifyRejected: the failure is not caught before loadImage.
BeautifyRejectedLoads(cause) ==
    /\ awaiting
    /\ Len(imageLoads) < MaxLoads
    /\ imageLoads' = Append(imageLoads, "undefined")
    /\ error' = BeautifyFailedMessage
    /\ isLoading' = FALSE
    /\ awaiting' = FALSE
    /\ last' = [op |-> "BeautifyRejected", cause |-> cause]
    /\ Tick
    /\ UNCHANGED <<canvasVars, canvasSize, stroke>>
    /\ UNCHANGED <<color, strokeWidth, isErasing>>

\* beautifyDrawing rejects: the call failed, or the response holds no image.
BeautifyRejected(cause) ==
    /\ awaiting
    /\ error' = BeautifyFailedMessage
    /\ isLoading' = FALSE
    /\ awaiting' = FALSE
    /\ last' = [op |-> "BeautifyRejected", cause |-> cause]
    /\ Tick
    /\ UNCHANGED <<canvasVars, canvasSize, stroke, imageLoads>>
    /\ UNCHANGED <<color, strokeWidth, isErasing>>

\* The close button of the error banner.
dismissError ==
    /\ error # NULL
    /\ error' = NULL
    /\ Flush
    /\ last' = Unobserved
    /\ UNCHANGED <<color, strokeWidth, isErasing, isLoading, awaiting>>

-----------------------------------------------------------------------------
(* The system *)

\* Drawings a caller may hand to loadFromHistory.
PathA == [points |-> <<[x |-> 0, y |-> 0], [x |-> 1, y |-> 0], [x |-> 0, y |-> 0]>>,
          color |-> "#EF4444", strokeWidth |-> 5]
PathB == [points |-> <<[x |-> 1, y |-> 0], [x |-> 0, y |-> 0]>>,
          color |-> "#FFFFFF", strokeWidth |-> 5]
SavedDrawings == {<<PathA>>, <<PathB, PathB>>}

Init ==
    /\ history = <<>>
    /\ currentPath = NULL
    /\ isDrawing = FALSE
    /\ rHistory = <<>>
    /\ rCurrentPath = NULL
    /\ rIsDrawing = FALSE
    /\ pending = "none"
    /\ stale = 0
    /\ canvasSize = [width |-> 300, height |-> 150]
    /\ surface = redrawCanvas(<<>>, NULL, [width |-> 300, height |-> 150])
    /\ color = "#FFFFFF"
    /\ strokeWidth = 5
    /\ isErasing = FALSE
    /\ isLoading = FALSE
    /\ error = NULL
    /\ awaiting = FALSE
    /\ imageLoads = <<>>
    /\ stroke = NULL
    /\ last = [op |-> "mount"]

Next ==
    \/ \E event \in PointerEvents : startDrawing(event)
    \/ \E event \in PointerEvents : draw(event)
    \/ PointerUp
    \/ MouseLeave
    \/ Render
    \/ \E size \in Sizes : Resize(size)
    \/ handleClear
    \/ handleUndo
    \/ handleDownload
    \/ \E newHistory \in SavedDrawings : loadFromHistory(newHistory)
    \/ \E ctxOk \in BOOLEAN : handleBeautify(ctxOk)
    \/ \E newImage \in Images : BeautifyResolved(newImage)
    \/ \E cause \in {"network", "noImage"} : BeautifyRejected(cause)
    \/ \E i \in 1..MaxLoads : ImageLoaded(i)
    \/ \E i \in 1..MaxLoads : ImageFailed(i)
    \/ dismissError

Spec == Init /\ [][Next]_vars

\* The awaited remote call settles.
BeautifySettled ==
    \/ \E newImage \in Images : BeautifyResolved(newImage)
    \/ \E cause \in {"network", "noImage"} : BeautifyRejected(cause)

\* The scheduler runs a render that is scheduled, and the remote call
\* eventually returns or fails.
SpecLive == Spec /\ WF_vars(Render) /\ SF_vars(BeautifySettled)

\* The toolbar's style controls, on strokes sampled at a single position.
StyleEvents == {e \in MouseEvents : e.clientX = Rect.left}

NextStyle ==
    \/ \E event \in StyleEvents : startDrawing(event)
    \/ \E event \in StyleEvents : draw(event)
    \/ PointerUp
    \/ MouseLeave
    \/ Render
    \/ handleClear
    \/ handleUndo
    \/ \E newColor \in colors : handleColorChange(newColor)
    \/ handleEraserSelect
    \/ \E width \in Widths : setStrokeWidth(width)

SpecStyle == Init /\ [][NextStyle]_vars

\* The renderer, on every path of up to MaxPoints points.
RenderPoints == {[x |-> 0, y |-> 4], [x |-> 1, y |-> 2], [x |-> 3, y |-> 1]}
RenderPaths ==
    {[points |-> pts, color |-> "#FFFFFF", strokeWidth |-> 5] :
        pts \in UNION {[1..n -> RenderPoints] : n \in 0..MaxPoints}}

NextRender ==
    \/ \E path \in RenderPaths : loadFromHistory(<<path>>)
    \/ \E size \in Sizes : Resize(size)
    \/ handleClear

SpecRender == Init /\ [][NextRender]_vars

-----------------------------------------------------------------------------
(* Properties *)

\* The canvas after img.onload painted image over the background.
ImageSurface(image, size) ==
    fillBackground(size)
    \o <<[op |-> "drawImage", image |-> image, x |-> 0, y |-> 0,
          w |-> size.width, h |-> size.height]>>

\* The canvas after a full redraw of the component's state.
RedrawnSurface ==
    fillBackground(canvasSize)
    \o drawPaths(history)
    \o (IF currentPath = NULL THEN <<>> ELSE drawSmoothedPath(currentPath))

\* The step is a pointer-down or a pointer-move.
PointerDownOrMove ==
    \/ \E event \in PointerEvents : startDrawing(event)
    \/ \E event \in PointerEvents : draw(event)

\* C1: a pointer-down, N pointer-moves and a pointer-up / pointer-leave /
\* touch-end, each handled after the render of the one before, append exactly
\* one path holding the N+1 samples in order when N >= 1 and leave history as
\* it was when N = 0; the in-progress path is null afterwards.
C1_StrokeCommitted ==
    (stroke # NULL /\ stroke.phase = "closed") =>
        /\ currentPath = NULL
        /\ IF Len(stroke.samples) >= 2
           THEN /\ Len(history) = Len(stroke.history) + 1
                /\ SubSeq(history, 1, Len(stroke.history)) = stroke.history
                /\ history[Len(history)].points = stroke.samples
           ELSE history = stroke.history

C1_Witness ==
    /\ stroke # NULL
    /\ stroke.phase = "closed"
    /\ Len(stroke.samples) >= 2
    /\ stroke.history # <<>>
    /\ Len(history) = Len(stroke.history) + 1

\* C2: undo() with no stroke in progress removes exactly the last path of a
\* non-empty history and leaves the paths before it as they were; on an empty
\* history it leaves history empty.
C2_UndoRemovesLast ==
    [][(last'.op = "undo" /\ currentPath = NULL) =>
          IF history = <<>>
          THEN history' = <<>>
          ELSE /\ Len(history') = Len(history) - 1
               /\ \A i \in 1..Len(history') : history'[i] = history[i]]_vars

C2_Witness ==
    /\ last.op = "undo"
    /\ ~last.pre.drawing
    /\ last.pre.n = 2
    /\ Len(history) = 1

\* C3, as claimed: undo() with a stroke in progress nulls the in-progress
\* path and leaves history exactly as it was.
C3_UndoKeepsHistory ==
    [][(last'.op = "undo" /\ currentPath # NULL) =>
          (currentPath' = NULL /\ history' = history)]_vars

\* C3, amended: undo() with a stroke in progress nulls the in-progress path
\* and also removes the last committed path, if there is one.
C3_UndoWhileDrawing ==
    [][(last'.op = "undo" /\ currentPath # NULL) =>
          /\ currentPath' = NULL
          /\ Len(history') = (IF history = <<>> THEN 0 ELSE Len(history) - 1)
          /\ \A i \in 1..Len(history') : history'[i] = history[i]]_vars

C3_Witness ==
    /\ last.op = "undo"
    /\ last.pre.drawing
    /\ last.pre.n >= 1
    /\ Len(history) = last.pre.n - 1
    /\ currentPath = NULL

\* C4: after clear(), whatever the state before, history is empty and the
\* in-progress path is null.
C4_ClearEmpties ==
    last.op = "clear" => (history = <<>> /\ currentPath = NULL)

C4_Witness ==
    /\ last.op = "clear"
    /\ last.pre.drawing
    /\ last.pre.n >= 1
    /\ history = <<>>
    /\ currentPath = NULL

\* C5: the export is unchanged by a pointer-down or a pointer-move, and once
\* the component has rendered with no stroke in progress it holds exactly
\* what the on-screen redraw painted.
C5_ExportExcludesStroke ==
    [][/\ (pending = "none" /\ currentPath = NULL)
            => getImageData(TRUE).pixels = surface
       /\ getImageData(TRUE)' = getImageData(TRUE) \/ ~PointerDownOrMove]_vars

C5_Witness ==
    /\ Open(stroke)
    /\ Len(stroke.samples) >= 2
    /\ stroke.history # <<>>
    /\ currentPath # NULL
    /\ getImageData(TRUE)
         = toDataURL(canvasSize, fillBackground(canvasSize) \o drawPaths(stroke.history))

\* C6: when an image load completes history is empty and the in-progress path
\* null, and an undo() issued after it leaves history empty.
C6_LoadEmptiesHistory ==
    [][/\ last'.op = "ImageLoaded" => (history' = <<>> /\ currentPath' = NULL)
       /\ (last'.op = "undo" /\ AfterLoad(last)) => history' = <<>>]_vars

C6_Witness ==
    /\ last.op = "undo"
    /\ last.afterLoad
    /\ history = <<>>
    /\ currentPath = NULL

\* C7: once an image load has completed the canvas holds the loaded image,
\* and the render that the load's own reset of history triggers leaves it.
C7_LoadedImageStays ==
    /\ last.op = "ImageLoaded" => surface = ImageSurface(last.image, canvasSize)
    /\ (last.op = "Render" /\ last.of.op = "ImageLoaded")
           => surface = ImageSurface(last.of.image, canvasSize)

\* C8: once every scheduled render has run, the canvas holds the background
\* fill, then every path of history in order, then the in-progress path.
C8_SurfaceIsRedraw ==
    pending = "none" => surface = RedrawnSurface

C8_Witness ==
    /\ pending = "none"
    /\ history # <<>>
    /\ currentPath # NULL
    /\ canvasSize.width = 800
    /\ surface = RedrawnSurface

\* C9: a click on Beautify while history is empty surfaces the validation
\* error, starts no remote call, loads no image and leaves history alone.
C9_BlankIsRejected ==
    [][(last'.op = "handleBeautify" /\ history = <<>> /\ rHistory = <<>>) =>
          /\ error' = EmptyCanvasMessage
          /\ ~awaiting'
          /\ imageLoads' = imageLoads
          /\ history' = history]_vars

\* C10: a failed remote call ends in the one failure message, loads no image,
\* and neither the request nor its failure touches history, the in-progress
\* path or the drawing flag.
C10_FailureIsContained ==
    [][/\ last'.op = "BeautifyRejected" =>
            /\ error' = BeautifyFailedMessage
            /\ imageLoads' = imageLoads
       /\ last'.op \in {"handleBeautify", "BeautifyRejected"} =>
            /\ history' = history
            /\ currentPath' = currentPath
            /\ isDrawing' = isDrawing]_vars

C10_Witness ==
    /\ last.op = "BeautifyRejected"
    /\ last.cause = "noImage"
    /\ error = BeautifyFailedMessage
    /\ history # <<>>
    /\ currentPath # NULL
    /\ imageLoads = <<>>

\* A quadratic curve with control point cp, ending at the point whose
\* coordinates, in half pixels, are end2.
CurveTo(cp, end2) ==
    [op |-> "quadraticCurveTo", cpx |-> 2 * cp.x, cpy |-> 2 * cp.y,
     x |-> end2.x, y |-> end2.y]

\* The commands C11 states for the points P (P[1] is P0), after beginPath.
SmoothedCommands(P) ==
    LET n == Len(P)
    IN  <<[op |-> "moveTo", x |-> 2 * P[1].x, y |-> 2 * P[1].y]>>
        \o [i \in 1..(n - 3) |->
               CurveTo(P[i + 1], [x |-> P[i + 1].x + P[i + 2].x,
                                  y |-> P[i + 1].y + P[i + 2].y])]
        \o <<CurveTo(P[n - 1], [x |-> 2 * P[n].x, y |-> 2 * P[n].y])>>
        \o <<[op |-> "stroke"]>>

\* C11: a path of n >= 3 points is drawn as move-to P0, then for i = 1..n-3 a
\* quadratic curve with control point Pi ending at the midpoint of Pi and
\* P(i+1), then one curve with control point P(n-2) ending at P(n-1), then
\* stroke: n-2 curves in all.
C11_SmoothedPath ==
    (Len(history) = 1 /\ Len(history[1].points) >= 3) =>
        LET P == history[1].points
        IN  /\ surface = fillBackground(canvasSize)
                         \o SubSeq(drawSmoothedPath(history[1]), 1, 5)
                         \o SmoothedCommands(P)
            /\ Cardinality({k \in 1..Len(surface) :
                               surface[k].op = "quadraticCurveTo"}) = Len(P) - 2

C11_Witness ==
    /\ Len(history) = 1
    /\ Len(history[1].points) = 4
    /\ history[1].points[2] # history[1].points[3]
    /\ surface[8] = [op |-> "moveTo", x |-> 2 * history[1].points[1].x,
                     y |-> 2 * history[1].points[1].y]
    /\ surface[9] = CurveTo(history[1].points[2],
                            [x |-> history[1].points[2].x + history[1].points[3].x,
                             y |-> history[1].points[2].y + history[1].points[3].y])
    /\ surface[10] = CurveTo(history[1].points[3],
                             [x |-> 2 * history[1].points[4].x,
                              y |-> 2 * history[1].points[4].y])
    /\ surface[11] = [op |-> "stroke"]

\* The step is a pointer-up, a touch-end or a pointer-leave.
FinishStep == PointerUp \/ MouseLeave

\* The step is the touch-start of a second finger: the event lists the first
\* finger's touch point and the new one.
SecondTouchStart ==
    \E event \in TouchEvents : Len(event.touches) = 2 /\ startDrawing(event)

\* C12: the completion of an image load empties history and nulls the
\* in-progress path whatever happened since the call, and the stroke that was
\* under way at the completion commits nothing with its later moves and its
\* pointer-up.
C12_LoadDiscardsStroke ==
    /\ last.op = "ImageLoaded" => (history = <<>> /\ currentPath = NULL)
    /\ (Cancelled(stroke) /\ stroke.by = "ImageLoaded") => history = <<>>

\* C13: however the renders fall between the events, the pointer-up of a
\* stroke with two or more sampled points commits exactly that path, and a
\* pointer-up received while the flag is up lowers it.
C13_NoSampleLost ==
    [][PointerUp =>
          /\ (currentPath # NULL /\ Len(currentPath.points) >= 2)
                 => history' = Append(history, currentPath)
          /\ isDrawing => (~isDrawing' /\ currentPath' = NULL)]_vars

\* C14: the touch-start of a second finger while a stroke is in progress
\* leaves the in-progress path and history as they were.
C14_SecondTouchIgnored ==
    [][(SecondTouchStart /\ isDrawing /\ currentPath # NULL) =>
          (currentPath' = currentPath /\ history' = history)]_vars

C16_HistoryChanges ==
    [][/\ last'.op \in {"clear", "ImageLoaded"} => history' = <<>>
       /\ last'.op = "undo" =>
             history' = SubSeq(history, 1, Len(history) - 1)
       /\ last'.op = "loadFromHistory" => history' = last'.paths
       /\ last'.op \notin {"clear", "ImageLoaded", "undo", "loadFromHistory"} =>
             \/ history' = history
             \/ /\ FinishStep
                /\ Len(history') = Len(history) + 1
                /\ SubSeq(history', 1, Len(history)) = history
       /\ history' = history \/ ~PointerDownOrMove]_vars

C16_Witness ==
    /\ stroke # NULL
    /\ stroke.phase = "closed"
    /\ Len(stroke.samples) = 2
    /\ Len(history) = 2
    /\ history[1] = stroke.history[1]
    /\ history[2].points = stroke.samples

\* C17: every path of history has two points or more; a stroke ended with
\* one point is not committed.
C17_AtLeastTwoPoints ==
    \A k \in 1..Len(history) : Len(history[k].points) >= 2

C17_Witness ==
    /\ stroke # NULL
    /\ stroke.phase = "closed"
    /\ Len(stroke.samples) = 1
    /\ history = stroke.history
    /\ history # <<>>
    /\ \A k \in 1..Len(history) : Len(history[k].points) >= 2

C19_IdleMoveIgnored ==
    [][(~isDrawing /\ currentPath = NULL
           /\ \E event \in PointerEvents : draw(event)) =>
          UNCHANGED <<history, currentPath, isDrawing>>]_vars

C19_Witness ==
    /\ last = IdleMove
    /\ ~isDrawing
    /\ currentPath = NULL
    /\ history # <<>>

\* C20: a pointer-down or pointer-move whose coordinate does not resolve (a
\* touch event with no touch point, or no canvas attached) changes neither
\* history, the in-progress path nor the flag, and shows no error.
C20_UnresolvedIgnored ==
    [][/\ \A event \in PointerEvents : getCoordinates(FALSE, event) = NULL
       /\ \A event \in TouchEvents :
             (Len(event.touches) = 0 /\ (startDrawing(event) \/ draw(event))) =>
                 /\ getCoordinates(TRUE, event) = NULL
                 /\ UNCHANGED <<history, currentPath, isDrawing, error>>]_vars

C20_Witness ==
    /\ last = Unresolved
    /\ isDrawing
    /\ currentPath # NULL
    /\ Len(currentPath.points) >= 2

\* The step is a click on a style control of the toolbar.
StyleStep ==
    \/ \E newColor \in colors : handleColorChange(newColor)
    \/ handleEraserSelect
    \/ \E width \in Widths : setStrokeWidth(width)

\* The paths p and q carry the same colour and width.
SameStyle(p, q) == p.color = q.color /\ p.strokeWidth = q.strokeWidth

\* C21: a stroke carries the colour and width current at its pointer-down:
\* a change of colour or width or a switch to the eraser leaves the
\* in-progress path and history as they are, a pointer-move keeps the path's
\* style, the path committed carries the style of the pointer-down, and the
\* paths that stay in history keep theirs.
C21_StyleFixedAtPointerDown ==
    [][/\ StyleStep => UNCHANGED <<history, currentPath>>
       /\ (\E event \in PointerEvents : startDrawing(event)) =>
             (currentPath' # currentPath =>
                 /\ currentPath'.color = (IF isErasing THEN canvasColor ELSE color)
                 /\ currentPath'.strokeWidth = strokeWidth)
       /\ (currentPath # NULL /\ currentPath' # NULL
              /\ ~(\E event \in PointerEvents : startDrawing(event)))
             => SameStyle(currentPath', currentPath)
       /\ Open(stroke') => SameStyle(currentPath', stroke')
       /\ (stroke' # NULL /\ stroke'.phase = "closed" /\ Len(stroke'.samples) >= 2)
             => SameStyle(history'[Len(history')], stroke')
       /\ \A k \in 1..Len(history) :
             k <= Len(history') => history'[k] = history[k]]_vars

C21_Witness ==
    /\ stroke # NULL
    /\ stroke.phase = "closed"
    /\ Len(stroke.samples) >= 2
    /\ stroke.color # (IF isErasing THEN canvasColor ELSE color)
    /\ stroke.strokeWidth # strokeWidth
    /\ SameStyle(history[Len(history)], stroke)

\* The command draws: it is neither the background fill, nor a style
\* setting, nor beginPath.
IsPathCommand(c) == c.op \in {"moveTo", "lineTo", "quadraticCurveTo", "stroke"}

\* C22: a path of no point is drawn with no path command; a path of one point
\* as move-to P0, line-to P0, stroke; a path of two points as move-to P0,
\* line-to P1, stroke, with no curve; and for every path with a point the
\* line cap and the line join are set to round before it is drawn.
C22_ShortPath ==
    Len(history) = 1 =>
        LET P == history[1].points
            commands == SelectSeq(surface, IsPathCommand)
        IN  /\ Len(P) = 0 => commands = <<>>
            /\ Len(P) = 1 =>
                  commands = <<[op |-> "moveTo", x |-> 2 * P[1].x, y |-> 2 * P[1].y],
                               [op |-> "lineTo", x |-> 2 * P[1].x, y |-> 2 * P[1].y],
                               [op |-> "stroke"]>>
            /\ Len(P) = 2 =>
                  commands = <<[op |-> "moveTo", x |-> 2 * P[1].x, y |-> 2 * P[1].y],
                               [op |-> "lineTo", x |-> 2 * P[2].x, y |-> 2 * P[2].y],
                               [op |-> "stroke"]>>
            /\ Len(P) >= 1 =>
                  /\ surface[5] = [op |-> "lineCap", value |-> "round"]
                  /\ surface[6] = [op |-> "lineJoin", value |-> "round"]
                  /\ surface[7] = [op |-> "beginPath"]

C22_Witness ==
    /\ Len(history) = 1
    /\ Len(history[1].points) = 1
    /\ Len(surface) = 10
    /\ surface[9] = [op |-> "lineTo", x |-> 2 * history[1].points[1].x,
                     y |-> 2 * history[1].points[1].y]
    /\ surface[10] = [op |-> "stroke"]

\* C23: every request for enhancement ends with isLoading false, whether it
\* stops at the blank-canvas check, the remote call resolves and loadImage is
\* called, or the remote call fails; isLoading is true only while the remote
\* call is awaited.
C23_LoadingEnds ==
    /\ [](isLoading <=> awaiting)
    /\ [](error # NULL => ~isLoading)
    /\ isLoading ~> (~isLoading /\ ~awaiting)

C23_Witness ==
    /\ ~isLoading
    /\ ~awaiting
    /\ error = NULL
    /\ Len(imageLoads) = 1

=============================================================================
